---- MODULE Spec2Model ----
(***************************************************************************)
(* A model of csim.c, the CS:APP cache simulator: a set-associative cache  *)
(* with least-recently-used replacement, driven by a valgrind trace.       *)
(*                                                                         *)
(* Unsigned machine words are modelled as the set of their 1-bit           *)
(* positions (bit 0 is the least significant): the 64-bit address          *)
(* 0x100000005 is {0, 2, 32}.  Shifts, masks and the narrowing to a 32-bit *)
(* unsigned int are then exact set operations.                             *)
(***************************************************************************)
EXTENDS Integers, Sequences, FiniteSets, TLC

\* ------------------------------------------------------------------ bounds
\* Longest trace (number of L/S/M records) explored.
MaxEvents == 4
\* Largest number of lines per set (-E) explored.
MaxLines == 2
\* Largest number of set index bits (-s) explored.
MaxSetBits == 1
\* The numbers of block offset bits (-b) explored: none and some.
BlockBits == {0, 1}

\* ------------------------------------------------------- program constants
\* Width in bits of unsigned long (the address type).
LongBits == 64
\* Width in bits of unsigned int and int (tag, set index, counters).
IntBits == 32
\* trace_line.type of a Modify record (the enum's third member).
MODIFY == 2
\* trace_line.type of a Load record.
LOAD == 0
\* trace_line.type of a Store record.
STORE == 1

\* INT_MIN, what 1 << 31 leaves in an int on two's complement hardware.
IntMin == (-2147483647) - 1

\* The addresses a trace record may carry.  Bits 0..3 reach every offset,
\* set index and tag position of the explored configurations; bit 40 lies
\* above the 32 bits an unsigned int keeps of the tag.
Addresses == {{}, {0}, {1}, {2}, {3}, {40}}

\* ------------------------------------------------------------ machine words
\* x >> k for 0 <= k < width.
Shr(x, k) == {i - k : i \in {j \in x : j >= k}}

\* x << k on an unsigned long, for 0 <= k < 64.
Shl(x, k) == {j \in {i + k : i \in x} : j < LongBits}

\* ~x on an unsigned long.
Not(x) == (0 .. (LongBits - 1)) \ x

\* Narrowing conversion of an unsigned long to unsigned int.
ToUInt(x) == {i \in x : i < IntBits}

\* The value of a word that fits in an int.
RECURSIVE BitsToNat(_)
BitsToNat(x) ==
    IF x = {} THEN 0
    ELSE LET i == CHOOSE j \in x : TRUE
         IN  (2 ^ i) + BitsToNat(x \ {i})

\* The results address >> k can produce.  For 0 <= k < 64 the shift is
\* defined.  Otherwise the behaviour is undefined: hardware that masks the
\* count to six bits yields address >> (k mod 64), hardware that does not
\* yields 0.
ShrOutcomes(x, k) ==
    IF k \in 0 .. (LongBits - 1) THEN {Shr(x, k)}
    ELSE {Shr(x, k % LongBits), {}}

\* The results x << k can produce on an unsigned long, likewise.
ShlOutcomes(x, k) ==
    IF k \in 0 .. (LongBits - 1) THEN {Shl(x, k)}
    ELSE {Shl(x, k % LongBits), {}}

\* The results 1 << k can produce in an int.  Defined for 0 <= k <= 30;
\* otherwise undefined: hardware that masks the count to five bits yields
\* 1 << (k mod 32), which is INT_MIN for a count of 31; other hardware 0.
IntShl1Outcomes(k) ==
    IF k \in 0 .. (IntBits - 2) THEN {2 ^ k}
    ELSE {IF k % IntBits = IntBits - 1 THEN IntMin ELSE 2 ^ (k % IntBits), 0}

\* -1 stored in an int: every bit set.
MinusOne == 0 .. (IntBits - 1)

\* ------------------------------------------------------------ parse_address
\* A parse_address whose set index is not masked to s bits.
ParseAddressNoMask(address, s_, b_) ==
    {<<ToUInt(t), ToUInt(x)>> :
        t \in ShrOutcomes(address, s_ + b_),
        x \in ShrOutcomes(address, b_)}

\* The (tag, set index) pairs parse_address can leave in tag_index for an
\* address: set_index = (address >> b) & ~(~0ul << s) and
\* tag = address >> (s + b), each narrowed to unsigned int.  The tuple's
\* first component is the C tag_index[0] (tag), its second tag_index[1].
ParseAddressOutcomes(address, s_, b_) ==
    {<<ToUInt(t), ToUInt(x \cap Not(m))>> :
        t \in ShrOutcomes(address, s_ + b_),
        x \in ShrOutcomes(address, b_),
        m \in ShlOutcomes(0 .. (LongBits - 1), s_)}

\* ------------------------------------------------------------------- state
VARIABLES
    pc,          \* position of the run: main, cache_init, read_trace, loop, ...
    s, E, b,     \* main's locals, set by the option loop
    sets, lines, block_bits,            \* globals set by cache_init
    cache,       \* set index -> sequence of blocks (arr_blocks)
    heap_cache,  \* the set array's allocation: "null", "live" or "freed"
    heap_blocks, \* the set indices whose arr_blocks allocation is live
    lri_count, hit, miss, evictions,    \* global counters
    address,     \* parse_address's parameter while a call is being examined
    tag_index,   \* <<tag, set index>> of the record being processed
    is_type_m,   \* parse_trace's replay flag
    nLS, nM,     \* history: Load/Store and Modify records read so far
    last,        \* history: what the latest access did
    trace,       \* the array read_trace builds, when the run follows a given file
    log,         \* history: the accesses made while following a given file
    ref          \* reference model: per set, its tags from most to least recent

vars == <<pc, s, E, b, sets, lines, block_bits, cache, heap_cache,
          heap_blocks, lri_count, hit, miss, evictions, address, tag_index,
          is_type_m, nLS, nM, last, trace, log, ref>>

\* A block as cache_init leaves it.
InitBlock == [valid_bit |-> FALSE, tag |-> MinusOne, lri |-> -1]

\* The trace_line that ends the array.  Its type and address are never read.
EndRecord == [type |-> LOAD, address |-> {}, end |-> TRUE]

\* The trace_lines read_trace can have stored at the position reached after
\* n records.  The array is not kept in the state: each element is drawn
\* when parse_trace first reads it.
TraceRecords(n) ==
    {EndRecord} \cup
    (IF n < MaxEvents
     THEN {[type |-> ty, address |-> a, end |-> FALSE] :
              ty \in {LOAD, STORE, MODIFY}, a \in Addresses}
     ELSE {})

\* The trace of a run whose file is not fixed beforehand.
AnyTrace == [known |-> FALSE, lines |-> <<>>]

\* The trace_lines parse_trace can find at the position reached after n
\* records: element n of the array when the file is given, any otherwise.
NextRecords(n) ==
    IF trace.known
    THEN {IF n < Len(trace.lines) THEN trace.lines[n + 1] ELSE EndRecord}
    ELSE TraceRecords(n)

\* The history of a run that has made no access yet.
NoAccess == [outcome |-> "none", set |-> 0, line |-> 0, phase |-> "none"]

\* -------------------------------------------------- parse_trace: one access
\* The smallest member of a nonempty set of line positions.
First(S) == CHOOSE i \in S : \A j \in S : i <= j

\* A hit scan that looks at the first line only.
HitIndexFirstLineOnly(blocks, tag) ==
    IF blocks[1].tag = tag /\ blocks[1].valid_bit THEN 1 ELSE 0

\* The hit scan: the first line, in array order, that is valid and holds
\* the tag; 0 when the scan finds none.
HitIndex(blocks, tag) ==
    LET H == {i \in DOMAIN blocks :
                 blocks[i].tag = tag /\ blocks[i].valid_bit}
    IN  IF H = {} THEN 0 ELSE First(H)

\* A free-line scan that ends on the last free line.
EmptyIndexLast(blocks) ==
    LET F == {i \in DOMAIN blocks : ~blocks[i].valid_bit}
    IN  IF F = {} THEN 0 ELSE CHOOSE i \in F : \A j \in F : j <= i

\* The free-line scan: the first line with valid_bit false; 0 when none.
EmptyIndex(blocks) ==
    LET F == {i \in DOMAIN blocks : ~blocks[i].valid_bit}
    IN  IF F = {} THEN 0 ELSE First(F)

\* A victim scan whose comparison is reversed: it ends on the largest lri.
RECURSIVE ScanMaxLri(_, _, _)
ScanMaxLri(blocks, i, m) ==
    IF i > Len(blocks) THEN m
    ELSE ScanMaxLri(blocks, i + 1,
                    IF blocks[i].lri > blocks[m].lri THEN i ELSE m)

\* The victim scan from line i on, with m the candidate so far: a later
\* line replaces the candidate only when its lri is strictly smaller.
RECURSIVE ScanMinLri(_, _, _)
ScanMinLri(blocks, i, m) ==
    IF i > Len(blocks) THEN m
    ELSE ScanMinLri(blocks, i + 1,
                    IF blocks[i].lri < blocks[m].lri THEN i ELSE m)

\* A victim scan that never leaves the first line.
MinLriIndexFirstLine(blocks) == 1

\* The line min_lri points at when the victim scan ends.
MinLriIndex(blocks) == ScanMinLri(blocks, 2, 1)

\* What the access to a set prints in verbose mode.
Outcome(blocks, tag) ==
    IF HitIndex(blocks, tag) # 0 THEN "Hit"
    ELSE IF EmptyIndex(blocks) # 0 THEN "Miss"
    ELSE "Eviction"

\* The line the access writes.
TouchedLine(blocks, tag) ==
    IF HitIndex(blocks, tag) # 0 THEN HitIndex(blocks, tag)
    ELSE IF EmptyIndex(blocks) # 0 THEN EmptyIndex(blocks)
    ELSE MinLriIndex(blocks)

\* A hit that leaves the matched line's lri as it was.
HitUpdateNoStamp(blocks, i, count) == blocks

\* A hit that stamps the first line of the set instead of the matched one.
HitUpdateFirstLine(blocks, i, count) ==
    [blocks EXCEPT ![1].lri = count]

\* The set after a hit on line i: only lri is written.
HitUpdate(blocks, i, count) ==
    [blocks EXCEPT ![i].lri = count]

\* An install that leaves valid_bit unset.
InstallUpdateNotValid(blocks, i, tag, count) ==
    [blocks EXCEPT ![i] = [valid_bit |-> FALSE, tag |-> tag, lri |-> count]]

\* The set after the tag is installed in the free line i.
InstallUpdate(blocks, i, tag, count) ==
    [blocks EXCEPT ![i] = [valid_bit |-> TRUE, tag |-> tag, lri |-> count]]

\* An eviction that stamps the line and leaves the old tag in it.
EvictUpdateKeepsTag(blocks, i, tag, count) ==
    [blocks EXCEPT ![i].lri = count]

\* The set after line i is evicted: tag and lri are overwritten.
EvictUpdate(blocks, i, tag, count) ==
    [blocks EXCEPT ![i].tag = tag, ![i].lri = count]

\* The set after one access for tag with the recency clock at count.
AccessSet(blocks, tag, count) ==
    LET i == TouchedLine(blocks, tag)
        o == Outcome(blocks, tag)
    IN  IF o = "Hit" THEN HitUpdate(blocks, i, count)
        ELSE IF o = "Miss" THEN InstallUpdate(blocks, i, tag, count)
        ELSE EvictUpdate(blocks, i, tag, count)

\* hit after an access with the given outcome.
HitAfter(o, n) == IF o = "Hit" THEN n + 1 ELSE n

\* A miss counter that the install branch alone increments.
MissAfterInstallOnly(o, n) == IF o = "Miss" THEN n + 1 ELSE n

\* miss after an access with the given outcome.
MissAfter(o, n) == IF o = "Hit" THEN n ELSE n + 1

\* An eviction counter incremented by every miss.
EvictionsAfterEveryMiss(o, n) == IF o = "Hit" THEN n ELSE n + 1

\* evictions after an access with the given outcome.
EvictionsAfter(o, n) == IF o = "Eviction" THEN n + 1 ELSE n

\* A recency clock that an eviction does not advance.
LriCountAfterNoEvictTick(o, n) == IF o = "Eviction" THEN n ELSE n + 1

\* A recency clock that a hit does not advance.
LriCountAfterNoHitTick(o, n) == IF o = "Hit" THEN n ELSE n + 1

\* lri_count after an access: every branch increments it once.
LriCountAfter(o, n) == n + 1

\* ------------------------------------------------------ reference LRU model
\* The tags of a most-recently-used list.
Tags(mru) == {mru[i] : i \in DOMAIN mru}

\* What an access for tag does in a list of capacity cap.
RefOutcome(mru, tag, cap) ==
    IF tag \in Tags(mru) THEN "Hit"
    ELSE IF Len(mru) < cap THEN "Miss"
    ELSE "Eviction"

\* The list after the access: the tag moves or enters at the front, and
\* the tag at the back is dropped when a new tag enters a list that is full.
RefTouch(mru, tag, cap) ==
    LET Other(x) == x # tag
    IN  IF tag \in Tags(mru) THEN <<tag>> \o SelectSeq(mru, Other)
        ELSE IF Len(mru) < cap THEN <<tag>> \o mru
        ELSE <<tag>> \o SubSeq(mru, 1, Len(mru) - 1)

\* A replay flag that a Modify record never sets.
TypeMFlagNeverSet(ty, flag) == flag

\* is_type_m after the record's address is parsed.
TypeMFlag(ty, flag) == IF ty = MODIFY THEN TRUE ELSE flag

\* The set the access indexes is inside the allocated arrays.
WellFormed ==
    /\ sets >= 1
    /\ lines >= 1
    /\ tag_index[2] \subseteq 0 .. (IntBits - 2)
    /\ BitsToNat(tag_index[2]) \in DOMAIN cache

\* ------------------------------------------------------------------ actions
Init ==
    /\ pc = "main"
    /\ s = -1 /\ E = -1 /\ b = -1
    /\ sets = 0 /\ lines = 0 /\ block_bits = 0
    /\ cache = <<>>
    /\ heap_cache = "null"
    /\ heap_blocks = {}
    /\ lri_count = 0
    /\ hit = 0 /\ miss = 0 /\ evictions = 0
    /\ address = {}
    /\ tag_index = <<{}, {}>>
    /\ is_type_m = FALSE
    /\ nLS = 0 /\ nM = 0
    /\ last = NoAccess
    /\ trace = AnyTrace
    /\ log = <<>>
    /\ ref = <<>>

\* main's option loop leaves s, E and b as given on the command line.
SetOptions(sv, Ev, bv) ==
    /\ pc = "main"
    /\ s' = sv /\ E' = Ev /\ b' = bv
    /\ pc' = "cache_init"
    /\ UNCHANGED <<trace, log, ref, address, sets, lines, block_bits, cache, heap_cache, heap_blocks,
                   lri_count, hit, miss, evictions, tag_index, is_type_m,
                   nLS, nM, last>>

\* main with -s, -E and -b naming a cache that exists: s, b >= 0, E >= 1.
Main ==
    \E sv \in 0 .. MaxSetBits, Ev \in 1 .. MaxLines, bv \in BlockBits :
        SetOptions(sv, Ev, bv)

\* main with an option missing (left at -1), zero or negative.  No check
\* stands between the option loop and cache_init.
MainInvalid ==
    \E sv \in -1 .. MaxSetBits, Ev \in -1 .. MaxLines, bv \in {-1} \cup BlockBits :
        /\ sv < 0 \/ Ev < 1 \/ bv < 0
        /\ SetOptions(sv, Ev, bv)

\* main run with no argument at all: usage is printed and main returns 1.
MainNoArgs ==
    /\ pc = "main"
    /\ pc' = "usage"
    /\ UNCHANGED <<trace, log, ref, address, s, E, b, sets, lines, block_bits, cache, heap_cache,
                   heap_blocks, lri_count, hit, miss, evictions, tag_index,
                   is_type_m, nLS, nM, last>>

\* What malloc(n * size) can return for an int n: a negative n converts to
\* a size no allocator grants, and a zero size may yield NULL or a block.
MallocOutcomes(n) ==
    IF n >= 1 THEN {"live"}
    ELSE IF n = 0 THEN {"live", "null"}
    ELSE {"null"}

\* The values i takes in a loop for (i = 0; i < n; i++).
LoopIndices(n) == IF n >= 1 THEN 0 .. (n - 1) ELSE {}

\* cache_init: computes the globals, allocates the set array and one line
\* array per set, and initialises every block.
CacheInit ==
    /\ pc = "cache_init"
    /\ \E n \in IntShl1Outcomes(s), bb \in IntShl1Outcomes(b) :
       \E hc \in MallocOutcomes(n), hb \in MallocOutcomes(E) :
          /\ sets' = n
          /\ lines' = E
          /\ block_bits' = bb
          /\ heap_cache' = hc
          /\ heap_blocks' = IF hb = "live" THEN LoopIndices(n) ELSE {}
          /\ cache' = [i \in LoopIndices(n) |-> [j \in 1 .. E |-> InitBlock]]
          /\ ref' = [i \in LoopIndices(n) |-> <<>>]
    /\ pc' = "read_trace"
    /\ UNCHANGED <<trace, log, address, s, E, b, lri_count, hit, miss, evictions, tag_index,
                   is_type_m, nLS, nM, last>>

\* read_trace when the file opens and is read: the array of trace_lines
\* is returned and parse_trace starts at its first element.
ReadTrace ==
    /\ pc = "read_trace"
    /\ pc' = "loop"
    /\ UNCHANGED <<trace, log, ref, address, s, E, b, sets, lines, block_bits, cache, heap_cache,
                   heap_blocks, lri_count, hit, miss, evictions, tag_index,
                   is_type_m, nLS, nM, last>>

\* read_trace when fopen, fseek or ftell fails: a message, then exit(0).
ReadTraceFail ==
    /\ pc = "read_trace"
    /\ pc' = "exit"
    /\ UNCHANGED <<trace, log, ref, address, s, E, b, sets, lines, block_bits, cache, heap_cache,
                   heap_blocks, lri_count, hit, miss, evictions, tag_index,
                   is_type_m, nLS, nM, last>>

\* parse_trace from the loop test to the start label: the record under the
\* pointer is not the end marker, the replay flag is set for a Modify and
\* the address is split into tag_index.
Fetch ==
    /\ pc = "loop"
    /\ \E r \in NextRecords(nLS + nM) :
          /\ ~r.end
          /\ is_type_m' = TypeMFlag(r.type, is_type_m)
          /\ tag_index' \in ParseAddressOutcomes(r.address, s, b)
          /\ nLS' = IF r.type = MODIFY THEN nLS ELSE nLS + 1
          /\ nM' = IF r.type = MODIFY THEN nM + 1 ELSE nM
    /\ pc' = "start"
    /\ UNCHANGED <<trace, log, ref, address, s, E, b, sets, lines, block_bits, cache, heap_cache,
                   heap_blocks, lri_count, hit, miss, evictions, last>>

\* parse_trace from the start label to the end of the loop body: one
\* access to the set tag_index names, then either the replay of a Modify
\* (goto start with the flag cleared) or the step to the next record
\* (trace++).  last.phase records whether the access was the only one of a
\* Load or Store, or the first or second one of a Modify; log receives the
\* record's position and the outcome; the reference model makes the same
\* access.
Access ==
    /\ pc = "start"
    /\ WellFormed
    /\ LET idx == BitsToNat(tag_index[2])
           blocks == cache[idx]
           tag == tag_index[1]
           o == Outcome(blocks, tag)
       IN  /\ cache' = [cache EXCEPT ![idx] = AccessSet(blocks, tag, lri_count)]
           /\ hit' = HitAfter(o, hit)
           /\ miss' = MissAfter(o, miss)
           /\ evictions' = EvictionsAfter(o, evictions)
           /\ lri_count' = LriCountAfter(o, lri_count)
           /\ last' = [outcome |-> o, set |-> idx,
                       line |-> TouchedLine(blocks, tag),
                       phase |-> IF is_type_m THEN "first"
                                 ELSE IF last.phase = "first" /\ pc = "start"
                                      THEN "second" ELSE "single"]
           /\ log' = IF trace.known
                     THEN Append(log, [rec |-> nLS + nM, outcome |-> o,
                                       tag |-> tag, set |-> idx])
                     ELSE log
           /\ ref' = [ref EXCEPT ![idx] = RefTouch(ref[idx], tag, lines)]
    /\ is_type_m' = FALSE
    /\ pc' = IF is_type_m THEN "start" ELSE "loop"
    /\ UNCHANGED <<trace, address, s, E, b, sets, lines, block_bits, heap_cache,
                   heap_blocks, tag_index, nLS, nM>>

\* parse_trace's loop test on the end marker: parse_trace returns.
LoopEnd ==
    /\ pc = "loop"
    /\ EndRecord \in NextRecords(nLS + nM)
    /\ pc' = "free"
    /\ UNCHANGED <<trace, log, ref, address, s, E, b, sets, lines, block_bits, cache, heap_cache,
                   heap_blocks, lri_count, hit, miss, evictions, tag_index,
                   is_type_m, nLS, nM, last>>

\* main's tail: free(cache), printSummary, return 0.  Only the set array
\* is passed to free.
Finish ==
    /\ pc = "free"
    /\ heap_cache' = IF heap_cache = "live" THEN "freed" ELSE heap_cache
    /\ pc' = "done"
    /\ UNCHANGED <<trace, log, ref, address, s, E, b, sets, lines, block_bits, cache, heap_blocks,
                   lri_count, hit, miss, evictions, tag_index, is_type_m,
                   nLS, nM, last>>

\* parse_trace's access when the options named no cache: sets or lines is
\* below 1, so the indexed set or its line array lies outside every
\* allocation and the reads and the write are undefined.  The run may end
\* in a fault; if it goes on, a line array of no lines is scanned by no
\* loop and the eviction branch counts, while a stray line array of
\* positive length may show any content.  The modelled cache has no line
\* to change.
AccessUB ==
    /\ pc = "start"
    /\ ~WellFormed
    /\ \E o \in {"Fault", "Eviction"} \cup
                (IF lines >= 1 THEN {"Hit", "Miss"} ELSE {}) :
          /\ pc' = IF o = "Fault" THEN "crashed"
                   ELSE IF is_type_m THEN "start" ELSE "loop"
          /\ hit' = IF o = "Fault" THEN hit ELSE HitAfter(o, hit)
          /\ miss' = IF o = "Fault" THEN miss ELSE MissAfter(o, miss)
          /\ evictions' = IF o = "Fault" THEN evictions
                          ELSE EvictionsAfter(o, evictions)
          /\ lri_count' = IF o = "Fault" THEN lri_count
                          ELSE LriCountAfter(o, lri_count)
          /\ last' = [outcome |-> o, set |-> 0, line |-> 0,
                      phase |-> IF is_type_m THEN "first"
                                ELSE IF last.phase = "first" /\ pc = "start"
                                     THEN "second" ELSE "single"]
    /\ is_type_m' = FALSE
    /\ UNCHANGED <<trace, log, ref, address, s, E, b, sets, lines, block_bits, cache,
                   heap_cache, heap_blocks, tag_index, nLS, nM>>

Next ==
    \/ Main
    \/ MainNoArgs
    \/ CacheInit
    \/ ReadTrace
    \/ ReadTraceFail
    \/ Fetch
    \/ Access
    \/ LoopEnd
    \/ Finish

\* The runs whose options name a cache that exists.
Spec == Init /\ [][Next]_vars

NextMain ==
    \/ Next
    \/ MainInvalid
    \/ AccessUB

\* Every run of main, whatever the options.
SpecMain == Init /\ [][NextMain]_vars

\* ---------------------------------------------- runs on a given trace file
\* The options of the runs followed on given files: -s 1 -E 1 -b 0 (direct
\* mapped, two sets) and -s 0 -E 2 -b 0 (one set of two lines).
GivenOptions == {<<1, 1, 0>>, <<0, 2, 0>>}

\* A trace_line read_trace stores for a record of the file.
Rec(ty, a) == [type |-> ty, address |-> a, end |-> FALSE]

\* The records of the given files: loads of addresses 0 to 3, a store of
\* address 0 and a modify of address 2.
GivenRecords ==
    {Rec(LOAD, a) : a \in {{}, {0}, {1}, {0, 1}}} \cup
    {Rec(STORE, {}), Rec(MODIFY, {1})}

\* The arrays read_trace builds from the given files (end marker left out).
GivenTraces == UNION {[1 .. n -> GivenRecords] : n \in 0 .. MaxEvents}

\* main about to call cache_init, the options parsed and the file fixed.
InitTrace ==
    /\ pc = "cache_init"
    /\ \E o \in GivenOptions : s = o[1] /\ E = o[2] /\ b = o[3]
    /\ trace \in {[known |-> TRUE, lines |-> l] : l \in GivenTraces}
    /\ sets = 0 /\ lines = 0 /\ block_bits = 0
    /\ cache = <<>>
    /\ heap_cache = "null"
    /\ heap_blocks = {}
    /\ lri_count = 0
    /\ hit = 0 /\ miss = 0 /\ evictions = 0
    /\ address = {}
    /\ tag_index = <<{}, {}>>
    /\ is_type_m = FALSE
    /\ nLS = 0 /\ nM = 0
    /\ last = NoAccess
    /\ log = <<>>
    /\ ref = <<>>

NextTrace ==
    \/ CacheInit
    \/ ReadTrace
    \/ Fetch
    \/ Access
    \/ LoopEnd
    \/ Finish

\* The runs on given files that open and read without error.
SpecTrace == InitTrace /\ [][NextTrace]_vars

\* The same runs, never halted while a step remains: the program is one
\* thread that runs to its end.
SpecTraceLive == SpecTrace /\ WF_vars(NextTrace)

\* ------------------------------------------- parse_address taken on its own
\* The bit counts handed to parse_address as s and as b.
DecomposeBits == {0, 1, 4, 31, 32, 60, 63}

\* The addresses handed to parse_address: every combination of these bits.
DecomposeAddresses == SUBSET {0, 1, 5, 31, 32, 40, 63}

\* A call parse_address(address, s, b) about to be made.
InitDecompose ==
    /\ pc = "parse_address"
    /\ s \in DecomposeBits
    /\ b \in DecomposeBits
    /\ address \in DecomposeAddresses
    /\ E = 1
    /\ sets = 0 /\ lines = 0 /\ block_bits = 0
    /\ cache = <<>>
    /\ heap_cache = "null"
    /\ heap_blocks = {}
    /\ lri_count = 0
    /\ hit = 0 /\ miss = 0 /\ evictions = 0
    /\ tag_index = <<{}, {}>>
    /\ is_type_m = FALSE
    /\ nLS = 0 /\ nM = 0
    /\ last = NoAccess
    /\ trace = AnyTrace
    /\ log = <<>>
    /\ ref = <<>>

\* The call: tag_index receives the tag and the set index.
ParseAddress ==
    /\ pc = "parse_address"
    /\ tag_index' \in ParseAddressOutcomes(address, s, b)
    /\ pc' = "parsed"
    /\ UNCHANGED <<trace, log, ref, address, s, E, b, sets, lines, block_bits, cache,
                   heap_cache, heap_blocks, lri_count, hit, miss, evictions,
                   is_type_m, nLS, nM, last>>

NextDecompose == ParseAddress

\* parse_address applied to each address and each pair of bit counts.
SpecDecompose == InitDecompose /\ [][NextDecompose]_vars

\* =================================================================== claims
\* The set an access at the start label is about to index, and its tag.
TargetSet == cache[BitsToNat(tag_index[2])]
TargetTag == tag_index[1]

\* Every line of the set is valid.
Full(blocks) == \A i \in DOMAIN blocks : blocks[i].valid_bit

\* No valid line of the set holds the tag.
Absent(blocks, tag) ==
    \A i \in DOMAIN blocks : blocks[i].valid_bit => blocks[i].tag # tag

\* Every line of the cache, as a <<set index, line index>> pair.
AllLines == UNION {{<<i, j>> : j \in DOMAIN cache[i]} : i \in DOMAIN cache}

\* C1 - Conservation law: once N Load/Store records and M Modify records
\* are processed, hit + miss = N + 2*M; while a record is being processed
\* the sum lags by exactly the accesses still to make (two before the
\* first access of a Modify, one otherwise), so every access adds exactly
\* one to hit + miss.
C1_Conservation ==
    /\ pc \in {"loop", "free", "done"} => hit + miss = nLS + 2 * nM
    /\ pc = "start" =>
          hit + miss + (IF is_type_m THEN 2 ELSE 1) = nLS + 2 * nM

\* A finished run that processed Load/Store and Modify records and saw
\* hits, misses and an eviction.
C1_Witness ==
    /\ pc = "done"
    /\ nLS >= 1 /\ nM >= 1
    /\ hit >= 1 /\ miss >= 1 /\ evictions >= 1

\* C2 - Eviction only when full: an access increments evictions by one if
\* and only if, just before it, every line of the target set is valid and
\* no valid line holds the requested tag; otherwise, and in every step
\* that is not an access, evictions is unchanged.
C2_EvictionOnlyWhenFull ==
    [][IF pc = "start" /\ Full(TargetSet) /\ Absent(TargetSet, TargetTag)
       THEN evictions' = evictions + 1
       ELSE evictions' = evictions]_vars

\* An access has just evicted from a two-line set, after hits elsewhere.
C2_Witness ==
    /\ last.outcome = "Eviction"
    /\ lines = 2
    /\ evictions >= 1 /\ hit >= 1

\* C3 - LRU victim selection: when an access misses in a full set, one
\* line holds an lri strictly below that of every other line of the set;
\* that line receives the requested tag and the newest stamp (above every
\* lri in the cache), stays valid, and every other line of the set is
\* left as it was.
C3_LruVictim ==
    [][pc = "start" /\ Full(TargetSet) /\ Absent(TargetSet, TargetTag) =>
        \E v \in DOMAIN TargetSet :
            /\ \A j \in DOMAIN TargetSet :
                   j # v => TargetSet[v].lri < TargetSet[j].lri
            /\ cache'[BitsToNat(tag_index[2])][v] =
                   [valid_bit |-> TRUE, tag |-> TargetTag, lri |-> lri_count]
            /\ \A x \in AllLines : cache[x[1]][x[2]].lri < lri_count
            /\ \A j \in DOMAIN TargetSet :
                   j # v => cache'[BitsToNat(tag_index[2])][j] = TargetSet[j]
      ]_vars

\* An eviction has just replaced the second line of a set: the first
\* line was the more recently used one.
C3_Witness ==
    /\ last.outcome = "Eviction"
    /\ last.line = 2
    /\ cache[last.set][2].lri = lri_count - 1

\* C4 - Uniqueness invariant: no two valid lines of one set hold the same
\* tag.
C4_TagsUnique ==
    \A i \in DOMAIN cache :
        \A j, k \in DOMAIN cache[i] :
            (j # k /\ cache[i][j].valid_bit /\ cache[i][k].valid_bit)
                => cache[i][j].tag # cache[i][k].tag

\* A set with two valid lines, after a hit and an eviction.
C4_Witness ==
    /\ \E i \in DOMAIN cache :
          /\ Len(cache[i]) >= 2
          /\ Full(cache[i])
    /\ hit >= 1 /\ evictions >= 1

\* C5 - Modify semantics: the first access of a Modify is followed at once
\* by its second (the replay flag is cleared, nothing else runs between
\* them); both use the same tag and set index; the second is a hit on the
\* very line the first hit or installed, changing neither miss nor
\* evictions; and a single Modify on an empty cache ends with hits = 1,
\* misses = 1, evictions = 0.
C5_ModifySemantics ==
    /\ [][pc = "start" /\ is_type_m =>
            pc' = "start" /\ ~is_type_m' /\ last'.phase = "first"]_vars
    /\ [][pc = "start" => tag_index' = tag_index]_vars
    /\ [][pc = "start" /\ last.phase = "first" =>
            /\ last'.phase = "second"
            /\ last'.outcome = "Hit"
            /\ last'.set = last.set /\ last'.line = last.line
            /\ hit' = hit + 1 /\ miss' = miss /\ evictions' = evictions]_vars
    /\ [](pc = "done" /\ nM = 1 /\ nLS = 0 =>
            hit = 1 /\ miss = 1 /\ evictions = 0)

\* The second access of a Modify has just hit, its first access having
\* missed and evicted the line a Load had installed in a one-line set.
C5_Witness ==
    /\ last.phase = "second"
    /\ lines = 1
    /\ nLS = 1 /\ nM = 1
    /\ hit = 1 /\ miss = 2 /\ evictions = 1

\* C6 as stated - Recency uniqueness over all lines: from cache_init on,
\* no two lines of the cache, valid or not, hold equal lri.
C6_AllRecencyUnique ==
    pc \notin {"main", "usage", "cache_init"} =>
        \A x, y \in AllLines :
            x # y => cache[x[1]][x[2]].lri # cache[y[1]][y[2]].lri

\* C6 as amended - Recency uniqueness over valid lines: no two valid lines
\* of the cache hold equal lri; every invalid line holds the -1 cache_init
\* gave it and every valid line a stamp the clock has already passed.
C6_ValidRecencyUnique ==
    /\ \A x, y \in AllLines :
          (x # y /\ cache[x[1]][x[2]].valid_bit /\ cache[y[1]][y[2]].valid_bit)
              => cache[x[1]][x[2]].lri # cache[y[1]][y[2]].lri
    /\ \A x \in AllLines :
          IF cache[x[1]][x[2]].valid_bit
          THEN cache[x[1]][x[2]].lri \in 0 .. (lri_count - 1)
          ELSE cache[x[1]][x[2]].lri = -1

\* Valid lines in two different sets, an invalid line remaining, after a
\* hit.
C6_Witness ==
    /\ \E x, y \in AllLines :
          /\ x[1] # y[1]
          /\ cache[x[1]][x[2]].valid_bit /\ cache[y[1]][y[2]].valid_bit
    /\ \E x, y \in AllLines :
          /\ x # y
          /\ ~cache[x[1]][x[2]].valid_bit /\ ~cache[y[1]][y[2]].valid_bit
    /\ hit >= 1

\* C7 - Decomposition correctness: for s + b < 64, parse_address yields
\* the tag address >> (s + b) with every higher-order bit kept, the set
\* index made of the s bits above the low b bits, and
\* (tag << (s + b)) | (set index << b) is the address with its low b bits
\* cleared.
C7_Decomposition ==
    (pc = "parsed" /\ s + b < LongBits) =>
        /\ tag_index[1] = Shr(address, s + b)
        /\ tag_index[2] = {i \in Shr(address, b) : i < s}
        /\ {i + s + b : i \in tag_index[1]} \cup {i + b : i \in tag_index[2]}
               = {i \in address : i >= b}

\* C8 - Invalid configuration is rejected: with E < 1, s < 0 or b < 0 the
\* run allocates no cache storage, processes no access and never reaches
\* the report of the counters.
C8_InvalidConfigRejected ==
    (s < 0 \/ E < 1 \/ b < 0) =>
        /\ heap_cache = "null"
        /\ heap_blocks = {}
        /\ hit + miss = 0
        /\ pc # "done"

\* C9 - Address-width overflow is well-defined: for s + b >= 64 the tag
\* parse_address computes is 0.
C9_OverflowTagZero ==
    (pc = "parsed" /\ s + b >= LongBits) => tag_index[1] = {}

\* C10 - Full release on every exit path: when the run has ended after
\* cache_init allocated the cache (main returned 0, or read_trace called
\* exit), neither the set array nor any line array is still allocated.
C10_FullRelease ==
    pc \in {"done", "exit"} =>
        /\ heap_cache # "live"
        /\ heap_blocks = {}

\* The outcomes, the tags and the set indices of the accesses logged so far.
LogOutcomes == [i \in DOMAIN log |-> log[i].outcome]
LogTags == [i \in DOMAIN log |-> log[i].tag]
LogSets == [i \in DOMAIN log |-> log[i].set]

\* The tags held by the valid lines of a set.
ValidTags(blocks) == {blocks[i].tag : i \in {j \in DOMAIN blocks : blocks[j].valid_bit}}

\* The run of the direct-mapped scenario has ended: -s 1 -E 1 -b 0 on
\* loads of addresses 0, 2, 0.
DirectMappedDone ==
    /\ pc = "done"
    /\ <<s, E, b>> = <<1, 1, 0>>
    /\ trace.lines = <<Rec(LOAD, {}), Rec(LOAD, {1}), Rec(LOAD, {})>>

\* C11 as stated - Direct-mapped scenario: the three loads map to set 0
\* with tags 0, 1, 0 and the run ends with hits = 0, misses = 3,
\* evictions = 1.
C11_DirectMappedOneEviction ==
    DirectMappedDone =>
        /\ LogSets = <<0, 0, 0>>
        /\ LogTags = <<{}, {0}, {}>>
        /\ hit = 0 /\ miss = 3 /\ evictions = 1

\* C11 as amended - Direct-mapped scenario: the three loads map to set 0
\* with tags 0, 1, 0; the first is installed, the second and the third
\* each evict, and the run ends with hits = 0, misses = 3, evictions = 2.
C11_DirectMappedTwoEvictions ==
    DirectMappedDone =>
        /\ LogSets = <<0, 0, 0>>
        /\ LogTags = <<{}, {0}, {}>>
        /\ LogOutcomes = <<"Miss", "Eviction", "Eviction">>
        /\ hit = 0 /\ miss = 3 /\ evictions = 2

\* The direct-mapped run has ended after three accesses.
C11_Witness == DirectMappedDone /\ Len(log) = 3

\* C12 - LRU scenario: -s 0 -E 2 -b 0 on loads of addresses 1, 2, 1, 3
\* gives install, install, hit, eviction; the run ends with tags 1 and 3
\* valid (tag 2 evicted) and hits = 1, misses = 3, evictions = 1.
C12_LruScenario ==
    (/\ pc = "done"
     /\ <<s, E, b>> = <<0, 2, 0>>
     /\ trace.lines = <<Rec(LOAD, {0}), Rec(LOAD, {1}),
                        Rec(LOAD, {0}), Rec(LOAD, {0, 1})>>) =>
        /\ LogOutcomes = <<"Miss", "Miss", "Hit", "Eviction">>
        /\ ValidTags(cache[0]) = {{0}, {0, 1}}
        /\ hit = 1 /\ miss = 3 /\ evictions = 1

\* The run of the LRU scenario has ended after four accesses.
C12_Witness ==
    /\ pc = "done"
    /\ <<s, E, b>> = <<0, 2, 0>>
    /\ trace.lines = <<Rec(LOAD, {0}), Rec(LOAD, {1}),
                       Rec(LOAD, {0}), Rec(LOAD, {0, 1})>>
    /\ Len(log) = 4

\* The positions of the records the logged accesses belong to.
LogRecs == [i \in DOMAIN log |-> log[i].rec]

\* The accesses a trace calls for, as record positions in trace order from
\* position i on: one for a Load or a Store, two for a Modify.
RECURSIVE Expected(_, _)
Expected(recs, i) ==
    IF i > Len(recs) THEN <<>>
    ELSE (IF recs[i].type = MODIFY THEN <<i, i>> ELSE <<i>>)
            \o Expected(recs, i + 1)

\* C13 - Termination and order: every run on a given trace reaches the
\* end of main; at every moment the accesses made so far are an initial
\* part of the accesses the trace calls for, in trace order, one per Load
\* or Store and two per Modify, each with a (tag, set index) parse_address
\* yields for its record's address; and when parse_trace has returned,
\* every record has been read once and every expected access made.
C13_TerminationAndOrder ==
    /\ <>(pc = "done")
    /\ [](/\ Len(log) <= Len(Expected(trace.lines, 1))
          /\ LogRecs = SubSeq(Expected(trace.lines, 1), 1, Len(log))
          /\ \A i \in DOMAIN log :
                \E o \in ParseAddressOutcomes(
                              trace.lines[log[i].rec].address, s, b) :
                    log[i].tag = o[1] /\ log[i].set = BitsToNat(o[2])
          /\ pc \in {"free", "done"} =>
                /\ LogRecs = Expected(trace.lines, 1)
                /\ nLS + nM = Len(trace.lines))

\* A run has ended on a trace of Load, Store and Modify records.
C13_Witness ==
    /\ pc = "done"
    /\ trace.known
    /\ \E i, j, k \in DOMAIN trace.lines :
          /\ trace.lines[i].type = LOAD
          /\ trace.lines[j].type = STORE
          /\ trace.lines[k].type = MODIFY
    /\ Len(log) = Len(trace.lines) + nM

\* The tag the access about to be made would drop from the reference list.
RefVictim == ref[BitsToNat(tag_index[2])][Len(ref[BitsToNat(tag_index[2])])]

\* C14 - Equivalence with reference LRU: every access has the outcome the
\* reference most-recently-used list gives for it (hit, install or
\* eviction), an eviction overwrites the very tag the list drops (the one
\* touched longest ago), and after every access each set's valid tags are
\* the tags of its list, the list ordering them by decreasing lri.
C14_ReferenceLru ==
    /\ [][pc = "start" =>
            /\ last'.outcome =
                  RefOutcome(ref[BitsToNat(tag_index[2])], TargetTag, lines)
            /\ last'.outcome = "Eviction" =>
                  TargetSet[last'.line].tag = RefVictim]_vars
    /\ [](\A i \in DOMAIN cache :
            /\ ValidTags(cache[i]) = Tags(ref[i])
            /\ Len(ref[i]) = Cardinality(Tags(ref[i]))
            /\ \A j, k \in DOMAIN cache[i] :
                  (/\ cache[i][j].valid_bit /\ cache[i][k].valid_bit
                   /\ cache[i][j].lri > cache[i][k].lri) =>
                      \E m, n \in DOMAIN ref[i] :
                          /\ m < n
                          /\ ref[i][m] = cache[i][j].tag
                          /\ ref[i][n] = cache[i][k].tag)

\* An eviction has just dropped the tag of the second line, which was at
\* the back of the reference list, after a hit had reordered the set.
C14_Witness ==
    /\ last.outcome = "Eviction"
    /\ last.line = 2
    /\ hit >= 1
    /\ Len(ref[last.set]) = 2
    /\ ref[last.set][1] = cache[last.set][2].tag

\* The lines of the target set whose valid_bit is false.
FreeLines == {i \in DOMAIN TargetSet : ~TargetSet[i].valid_bit}

\* C15 - First-free-line install: an access that misses in a set with an
\* invalid line installs the tag in the invalid line of lowest index, which
\* becomes valid with the newest recency stamp; every other line of the set
\* stays as it was and evictions is not incremented.
C15_FirstFreeLine ==
    [][(pc = "start" /\ Absent(TargetSet, TargetTag) /\ ~Full(TargetSet)) =>
        /\ last'.outcome = "Miss"
        /\ last'.line \in FreeLines
        /\ \A i \in FreeLines : last'.line <= i
        /\ cache'[last'.set][last'.line] =
              [valid_bit |-> TRUE, tag |-> TargetTag, lri |-> lri_count]
        /\ \A i \in DOMAIN TargetSet :
              /\ cache'[last'.set][i].lri <= lri_count
              /\ i # last'.line => cache'[last'.set][i] = TargetSet[i]
        /\ miss' = miss + 1
        /\ evictions' = evictions]_vars

\* A tag has just been installed in the first line of a set whose second
\* line is still free.
C15_Witness ==
    /\ last.outcome = "Miss"
    /\ last.line = 1
    /\ lines = 2
    /\ ~cache[last.set][2].valid_bit
    /\ cache[last.set][1].valid_bit
    /\ cache[last.set][1].lri = lri_count - 1

\* C16 - Recency strictly increases on touch: the line an access touches (on
\* a hit, an install or an eviction) gets a recency strictly greater than
\* its own previous one and than that of every other line of the cache;
\* lri_count never decreases and is never reset.
C16_RecencyIncreases ==
    /\ [][pc = "start" =>
            /\ cache'[last'.set][last'.line].lri >
                  cache[last'.set][last'.line].lri
            /\ \A p \in AllLines :
                  p # <<last'.set, last'.line>> =>
                      /\ cache'[last'.set][last'.line].lri > cache[p[1]][p[2]].lri
                      /\ cache'[last'.set][last'.line].lri > cache'[p[1]][p[2]].lri
            /\ lri_count' > lri_count]_vars
    /\ [][lri_count' >= lri_count]_vars

\* A hit has just stamped a line above the line of another set that was
\* installed after it.
C16_Witness ==
    /\ last.outcome = "Hit"
    /\ sets = 2
    /\ cache[last.set][last.line].lri = lri_count - 1
    /\ lri_count >= 3
    /\ \E p \in AllLines :
          /\ p[1] # last.set
          /\ cache[p[1]][p[2]].valid_bit
          /\ cache[p[1]][p[2]].lri = lri_count - 2

\* The lines of the cache the step changes.
ChangedLines == {p \in AllLines : cache'[p[1]][p[2]] # cache[p[1]][p[2]]}

\* C17 - Frame of a single access: an access changes at most one line, a
\* line of the target set, and leaves the lines of every other set alone; on
\* a hit only the matched line's lri changes, its tag and valid bit and the
\* miss and evictions counters staying as they were.
C17_Frame ==
    [][pc = "start" =>
        /\ DOMAIN cache' = DOMAIN cache
        /\ last'.set = BitsToNat(tag_index[2])
        /\ ChangedLines \subseteq {<<last'.set, last'.line>>}
        /\ \A i \in DOMAIN cache : i # last'.set => cache'[i] = cache[i]
        /\ ~Absent(TargetSet, TargetTag) =>
              /\ last'.outcome = "Hit"
              /\ TargetSet[last'.line].valid_bit
              /\ TargetSet[last'.line].tag = TargetTag
              /\ cache'[last'.set][last'.line] =
                    [TargetSet[last'.line] EXCEPT !.lri = lri_count]
              /\ ChangedLines = {<<last'.set, last'.line>>}
              /\ miss' = miss
              /\ evictions' = evictions]_vars

\* A hit has just stamped the second line of a set of a two-set cache whose
\* other set holds a valid line.
C17_Witness ==
    /\ last.outcome = "Hit"
    /\ last.line = 2
    /\ sets = 2
    /\ \E i \in DOMAIN cache : i # last.set /\ cache[i][1].valid_bit
    /\ cache[last.set][2].lri = lri_count - 1

\* C18 - Recency clock counts touches: in every reachable state lri_count
\* equals the number of accesses made so far, hit + miss.
C18_ClockCountsTouches == lri_count = hit + miss

\* Four accesses, with a hit and an eviction among them, have been made.
C18_Witness ==
    /\ lri_count = MaxEvents
    /\ hit >= 1
    /\ evictions >= 1
    /\ miss >= 2

\* The lines of the cache whose valid_bit is true.
ValidLines == {p \in AllLines : cache[p[1]][p[2]].valid_bit}

\* C19 - Occupancy accounting: in every reachable state the number of valid
\* lines of the cache is miss - evictions and evictions <= miss; a line that
\* is valid stays valid.
C19_Occupancy ==
    /\ [](/\ Cardinality(ValidLines) = miss - evictions
          /\ evictions <= miss)
    /\ [][\A p \in ValidLines : cache'[p[1]][p[2]].valid_bit]_vars

\* Three lines are valid after an eviction has replaced one of them.
C19_Witness ==
    /\ Cardinality(ValidLines) = 3
    /\ evictions = 1
    /\ miss = 4

====
